---- MODULE Spec2Model ----
(***************************************************************************)
(* Model of digitize_board.py: the request executor BoardDigitizer._call_api*)
(* (retries, backoff, status classification, model fallback), the four-stage*)
(* pipeline BoardDigitizer.process_board and the batch loop of main.        *)
(***************************************************************************)
EXTENDS Integers, Sequences, FiniteSets, TLC

\* ------------------------------------------------------------------------
\* Program constants
\* ------------------------------------------------------------------------
MAX_RETRIES == 3
RETRY_BASE_DELAY == 2

\* ------------------------------------------------------------------------
\* Bounds of the model
\* ------------------------------------------------------------------------
\* Number of nested _call_api frames the interpreter allows before it raises
\* RecursionError (sys.getrecursionlimit(), scaled down).
RecursionLimit == 3

\* How many times process_board is run on one image when runs are repeated.
MaxRuns == 2

\* ------------------------------------------------------------------------
\* Values
\* ------------------------------------------------------------------------
\* Python's None, and the empty (falsy) string used as a model identifier.
None == "None"
EmptyModel == ""

\* Model identifiers a run can be configured with (self.model, self.fallback_model).
PrimaryModels == {EmptyModel, "gemini"}
FallbackModels == {EmptyModel, "gemini", "sonnet"}

\* File name characters: str.lower() and str.upper() act character by character.
LowerChar(c) ==
  CASE c = "J" -> "j" [] c = "P" -> "p" [] c = "G" -> "g" [] c = "N" -> "n"
    [] c = "E" -> "e" [] c = "W" -> "w" [] c = "B" -> "b" [] c = "I" -> "i"
    [] c = "F" -> "f"
    [] OTHER -> c

UpperChar(c) ==
  CASE c = "j" -> "J" [] c = "p" -> "P" [] c = "g" -> "G" [] c = "n" -> "N"
    [] c = "e" -> "E" [] c = "w" -> "W" [] c = "b" -> "B" [] c = "i" -> "I"
    [] c = "f" -> "F"
    [] OTHER -> c

lower(s) == [i \in 1..Len(s) |-> LowerChar(s[i])]
upper(s) == [i \in 1..Len(s) |-> UpperChar(s[i])]

SUPPORTED_FORMATS ==
  { <<".", "j", "p", "g">>, <<".", "j", "p", "e", "g">>,
    <<".", "p", "n", "g">>, <<".", "w", "e", "b", "p">> }

\* `image_path.suffix.lower() not in self.SUPPORTED_FORMATS`, negated.
IsSupported(suffix) == lower(suffix) \in SUPPORTED_FORMATS

\* An image path: its stem, its suffix and what the file system holds there:
\* a regular file, nothing, or a directory (exists() is true, open() fails).
Image(stem, suffix, disk) == [stem |-> stem, suffix |-> suffix, disk |-> disk]

PathExists(img) == img.disk # "missing"
Readable(img) == img.disk = "file"

\* ------------------------------------------------------------------------
\* The remote service: what one requests.post + raise_for_status + parsing of
\* the body can end in.
\* ------------------------------------------------------------------------
Outcome(kind, status, vision) == [kind |-> kind, status |-> status, vision |-> vision]

HTTPErrorStatuses == {400, 401, 402, 429, 500, 503}

RemoteOutcomes ==
  { Outcome("ok", 200, FALSE),              \* 2xx, body holds choices[0].message.content
    Outcome("KeyError", 200, FALSE),        \* 2xx, body lacks the content field
    Outcome("Timeout", 0, FALSE),           \* requests.exceptions.Timeout
    Outcome("RequestException", 0, FALSE) } \* connection failure
  \cup { Outcome("HTTPError", s, FALSE) : s \in HTTPErrorStatuses }
  \cup { Outcome("HTTPError", 400, TRUE) }  \* 400 whose body mentions vision

\* bool(e.response): requests.Response.__bool__ returns Response.ok, which is
\* False for every status raise_for_status() raises on (400..599).
ResponseTruthy(e) == e.status < 400

\* The "?" that stands for an unknown status.
UnknownStatus == -1

\* `status_code = e.response.status_code if e.response else "?"`
status_code(e) == IF ResponseTruthy(e) THEN e.status ELSE UnknownStatus

\* `"vision" in error_body.lower()` with
\* `error_body = e.response.text if e.response else ""`
body_mentions_vision(e) == IF ResponseTruthy(e) THEN e.vision ELSE FALSE

\* The branch of the HTTPError handler that is taken.
HTTPBranch(e) ==
  CASE status_code(e) = 401 -> "auth"
    [] status_code(e) = 402 -> "balance"
    [] status_code(e) = 400 /\ body_mentions_vision(e) -> "vision"
    [] status_code(e) \in {429, 503} -> "backoff"
    [] OTHER -> "flat"

\* RETRY_BASE_DELAY ** attempt
RECURSIVE Pow(_, _)
Pow(b, k) == IF k = 0 THEN 1 ELSE b * Pow(b, k - 1)

\* The delay of the other handlers used for unclassified HTTP errors too.
FlatDelayExponential(attempt) == Pow(RETRY_BASE_DELAY, attempt)

BackoffDelay(attempt) == Pow(RETRY_BASE_DELAY, attempt)
FlatDelay(attempt) == RETRY_BASE_DELAY

\* time.sleep without its guard: a sleep follows the last attempt too.
SleepsAfterAlways(attempt) == TRUE

\* `if attempt < self.MAX_RETRIES:` guarding every time.sleep
SleepsAfter(attempt) == attempt < MAX_RETRIES

\* `used_model = model or self.model`
ResolveModel(arg, primary) == IF arg = None \/ arg = EmptyModel THEN primary ELSE arg

\* The guard of the fallback left out: the fallback is tried whatever was used.
ShouldFallbackAlways(used, fallback) == TRUE

\* `if used_model != self.fallback_model:`
ShouldFallback(used, fallback) == used # fallback


\* ------------------------------------------------------------------------
\* Paths and their order (Path.__lt__ compares the path strings, case-sensitive)
\* ------------------------------------------------------------------------
Ord(c) ==
  CASE c = "." -> 46
    [] c = "G" -> 71 [] c = "J" -> 74 [] c = "N" -> 78 [] c = "P" -> 80
    [] c = "a" -> 97 [] c = "b" -> 98 [] c = "c" -> 99 [] c = "e" -> 101
    [] c = "f" -> 102 [] c = "g" -> 103 [] c = "i" -> 105 [] c = "j" -> 106
    [] c = "n" -> 110 [] c = "p" -> 112 [] c = "w" -> 119
    [] OTHER -> 0

\* The file name of an image path: stem followed by suffix.
Name(img) == <<img.stem>> \o img.suffix

RECURSIVE StrLess(_, _)
StrLess(s, t) ==
  IF t = <<>> THEN FALSE
  ELSE IF s = <<>> THEN TRUE
  ELSE IF Ord(Head(s)) # Ord(Head(t)) THEN Ord(Head(s)) < Ord(Head(t))
  ELSE StrLess(Tail(s), Tail(t))

PathLess(a, b) == StrLess(Name(a), Name(b))

\* sorted(set(images)): the paths in ascending order, each once.
RECURSIVE sorted(_)
sorted(S) ==
  IF S = {} THEN <<>>
  ELSE LET least == CHOOSE x \in S : \A y \in S \ {x} : PathLess(x, y)
       IN  <<least>> \o sorted(S \ {least})

\* batch_dir.glob(f"*{fmt}"): the entries of the directory whose name ends in fmt.
glob(dir, fmt) == { f \in dir : f.suffix = fmt }

\* The loop over SUPPORTED_FORMATS that collects the batch's images.
globbed(dir) ==
  UNION { glob(dir, fmt) \cup glob(dir, upper(fmt)) : fmt \in SUPPORTED_FORMATS }

\* ------------------------------------------------------------------------
\* Inputs: the command line (--image or --batch) and the configuration
\* ------------------------------------------------------------------------
JPG == <<".", "j", "p", "g">>
PNG == <<".", "p", "n", "g">>
GIF == <<".", "g", "i", "f">>

\* Contents of the --batch directories that are explored: three boards; two
\* images of one board next to a file that is no image; a directory named like
\* an image; nothing supported.
BatchDirs ==
  { { Image("a", JPG, "file"), Image("b", JPG, "file"), Image("c", upper(PNG), "file") },
    { Image("a", JPG, "file"), Image("a", upper(PNG), "file"), Image("b", GIF, "file") },
    { Image("a", JPG, "file"), Image("c", PNG, "dir") },
    { Image("b", GIF, "file") } }

\* Paths --image can name.
SingleImages ==
  { Image("a", JPG, "file"), Image("a", <<".", "J", "p", "g">>, "file"),
    Image("a", GIF, "file"), Image("a", <<>>, "file"),
    Image("a", JPG, "missing"), Image("a", GIF, "missing"),
    Image("a", PNG, "dir") }

Stems == {"a", "b", "c"}

\* args.image when --image is not given.
NoImage == Image(None, <<>>, "missing")

\* The parsed command line: --image PATH, or --batch DIR with DIR's entries.
ImageArgs == { [mode |-> "image", image |-> i, dir |-> {}] : i \in SingleImages }
BatchArgs == { [mode |-> "batch", image |-> NoImage, dir |-> d] : d \in BatchDirs }


\* ------------------------------------------------------------------------
\* _encode_image and _build_context_section
\* ------------------------------------------------------------------------
JPEG == <<".", "j", "p", "e", "g">>
WEBP == <<".", "w", "e", "b", "p">>

\* dict.get(key, default)
get(d, key, default) == IF key \in DOMAIN d THEN d[key] ELSE default

\* A mime_map that declares WebP images as PNG.
mime_map_webp_as_png ==
  (JPG :> "image/jpeg") @@ (JPEG :> "image/jpeg") @@
  (PNG :> "image/png") @@ (WEBP :> "image/png")

mime_map ==
  (JPG :> "image/jpeg") @@ (JPEG :> "image/jpeg") @@
  (PNG :> "image/png") @@ (WEBP :> "image/webp")

\* The mime_type _encode_image returns for a path (the base64 text is left out).
encode_image(image_path) == get(mime_map, lower(image_path.suffix), "image/jpeg")

\* A text is the sequence of its pieces: the literal parts of an f-string and
\* the values put between them; "" is the empty sequence and + is \o.
Text(piece) == <<piece>>
EmptyText == <<>>

\* The local context_section of a stage method before its assignment.
Unbound == Text(None)

\* The fixed text of each template (its first sentence stands for the whole).
BOARD_TEMPLATES ==
  ("retrospektive" :> Text("Dies ist ein Retrospektiven-Board.")) @@
  ("ideensammlung" :> Text("Dies ist ein Ideensammlungs-Board (Brainstorming).")) @@
  ("metaplan" :> Text("Dies ist ein Metaplan-Board.")) @@
  ("5s_audit" :> Text("Dies ist ein 5S-Audit-Board.")) @@
  ("custom" :> EmptyText)

\* A context section that is built for the keys of BOARD_TEMPLATES only.
build_context_section_known_only(tmpl, ctx) ==
  LET template_text == get(BOARD_TEMPLATES, tmpl, EmptyText)
      composed ==
        IF tmpl = "custom" /\ ctx # EmptyText
        THEN Text("Board-Kontext: ") \o ctx
        ELSE IF ctx # EmptyText /\ tmpl \in DOMAIN BOARD_TEMPLATES
        THEN template_text \o Text("\n\nZusaetzlicher Kontext: ") \o ctx
        ELSE template_text
  IN  IF composed # EmptyText
      THEN Text("Board-Kontext:\n") \o composed \o Text("\n")
      ELSE EmptyText

\* A context section that is the composed text alone, without the heading line.
build_context_section_bare(tmpl, ctx) ==
  LET template_text == get(BOARD_TEMPLATES, tmpl, EmptyText) IN
    IF tmpl = "custom" /\ ctx # EmptyText
    THEN Text("Board-Kontext: ") \o ctx
    ELSE IF ctx # EmptyText
    THEN template_text \o Text("\n\nZusaetzlicher Kontext: ") \o ctx
    ELSE template_text

\* self._build_context_section() of a BoardDigitizer with self.template = tmpl
\* and self.context = ctx ("Zusaetzlicher" is the source's "Zusätzlicher").
build_context_section(tmpl, ctx) ==
  LET template_text == get(BOARD_TEMPLATES, tmpl, EmptyText)
      composed ==
        IF tmpl = "custom" /\ ctx # EmptyText
        THEN Text("Board-Kontext: ") \o ctx
        ELSE IF ctx # EmptyText
        THEN template_text \o Text("\n\nZusaetzlicher Kontext: ") \o ctx
        ELSE template_text
  IN  IF composed # EmptyText
      THEN Text("Board-Kontext:\n") \o composed \o Text("\n")
      ELSE EmptyText

\* Values of template and context a BoardDigitizer can be constructed with:
\* the keys of BOARD_TEMPLATES, the empty key and a key that is no template;
\* no context and some context.
Templates == DOMAIN BOARD_TEMPLATES \cup {"", "kanban"}
Contexts == {EmptyText, Text("X")}

\* Paths _encode_image is called with directly.
EncodeImages ==
  { Image("a", s, "file") :
      s \in {JPG, JPEG, PNG, WEBP, upper(JPG), upper(JPEG), upper(PNG), upper(WEBP),
             GIF, <<>>} }
    \cup { Image("a", JPG, "missing") }
EncodeArgs == { [mode |-> "image", image |-> i, dir |-> {}] : i \in EncodeImages }

\* ------------------------------------------------------------------------
\* Artifacts
\* ------------------------------------------------------------------------
\* The text the remote model `by` answers the request of `stage` of run `run` with.
Content(run, stage, by) == [run |-> run, stage |-> stage, by |-> by]

\* A local that holds no text (yet).
NoText == Content(0, 0, None)

NoFile == [doc |-> "absent", board |-> None, model |-> None,
           structure |-> NoText, body |-> NoText]

\* raw_path / summary_path of a board
raw_path(board_name) == <<board_name, "_Raw.md">>
summary_path(board_name) == <<board_name, "_Summary.md">>

Paths == { raw_path(b) : b \in Stems } \cup { summary_path(b) : b \in Stems }

\* raw_header + raw_content (the creation time is left out)
RawDocument(board_name, mdl, structure, raw) ==
  [doc |-> "raw", board |-> board_name, model |-> mdl,
   structure |-> structure, body |-> raw]

\* summary_header + summary_content
SummaryDocument(board_name, mdl, summary) ==
  [doc |-> "summary", board |-> board_name, model |-> mdl,
   structure |-> NoText, body |-> summary]

\* ------------------------------------------------------------------------
\* State
\* ------------------------------------------------------------------------
VARIABLES
  model, fallback_model,   \* BoardDigitizer configuration
  args,                    \* parsed command line
  images, idx,             \* main: the image list and the loop position
  success_count, error_count,
  report,                  \* main: per image, what was printed (ok / error)
  pc,                      \* control position
  stage,                   \* process_board: the stage in progress
  structure_analysis, raw_content, cleaned_content, summary_content,
  stage_log,               \* process_board: what this run has done so far
  mime_type,               \* process_board: the media type _encode_image returned
  context_section,         \* the stage method: what _build_context_section returned
  template, context,       \* BoardDigitizer configuration: --template, --context
  fs,                      \* output directory: path -> document
  remote,                  \* the answers the remote service gives in this execution
  messages,                \* _call_api: the message sequence of the call
  used_model, attempt, depth, last_exception,
  requests_made,           \* the requests the process_board run has sent so far
  events,                  \* _call_api: attempts and sleeps of this invocation
  call_outcome             \* _call_api: what the invocation ended in

cfgVars == <<model, fallback_model, template, context, args, remote>>
mainVars == <<images, idx, success_count, error_count, report>>
pbVars == <<stage, structure_analysis, raw_content, cleaned_content, summary_content, stage_log,
           mime_type, context_section>>
callVars == <<messages, used_model, attempt, depth, last_exception, events, call_outcome,
             requests_made>>
vars == <<cfgVars, mainVars, pbVars, callVars, pc, fs>>

\* last_exception = None
NoException == Outcome(None, 0, FALSE)

\* The message sequence of a request: whether it starts with a system message,
\* whether the user message carries the image, and the stage outputs its text embeds.
Messages(system, image, embeds) == [system |-> system, image |-> image, embeds |-> embeds]
NoMessages == Messages(FALSE, FALSE, {})

\* What a _call_api invocation ended in: nothing yet, a returned text, or a
\* raised exception with its chained cause (__cause__).
NoCall == [kind |-> "none", value |-> NoText, exc |-> None, cause |-> NoException]
Returned(text) == [kind |-> "returned", value |-> text, exc |-> None, cause |-> NoException]
Raised(exc, cause) == [kind |-> "raised", value |-> NoText, exc |-> exc, cause |-> cause]

\* The state main starts in, for a configuration, a command line and a remote
\* service out of the given sets.
InitWith(configs, argset, remotes) ==
  /\ \E c \in configs : model = c[1] /\ fallback_model = c[2]
  /\ args \in argset
  /\ remote \in remotes
  /\ images = <<>>
  /\ idx = 1
  /\ success_count = 0
  /\ error_count = 0
  /\ report = <<>>
  /\ pc = "main"
  /\ stage = 0
  /\ structure_analysis = NoText
  /\ raw_content = NoText
  /\ cleaned_content = NoText
  /\ summary_content = NoText
  /\ stage_log = <<>>
  /\ mime_type = None
  /\ context_section = Unbound
  /\ fs = [p \in Paths |-> NoFile]
  /\ messages = NoMessages
  /\ used_model = None
  /\ attempt = 0
  /\ depth = 0
  /\ last_exception = NoException
  /\ events = <<>>
  /\ call_outcome = NoCall
  /\ requests_made = 0


\* BoardDigitizer(..., template=args.template, context=args.context)
Options(templates, contexts) ==
  /\ template \in templates
  /\ context \in contexts

\* --template and --context left at their defaults.
DefaultOptions == Options({"custom"}, {EmptyText})

\* A remote service that answers every request the same way.
Permanently(o) == {o}
PermanentRemotes == { Permanently(o) : o \in RemoteOutcomes }

\* One image, any configuration, and a remote service that can answer each attempt
\* with any outcome or one that answers every attempt with the same outcome.
Init ==
  /\ InitWith(PrimaryModels \X FallbackModels, ImageArgs,
              {RemoteOutcomes} \cup PermanentRemotes)
  /\ DefaultOptions

\* A batch directory, a primary model with a distinct or an empty fallback, and a
\* remote service that fails in one or two ways.
BatchConfigs == { <<"gemini", "sonnet">>, <<"gemini", EmptyModel>> }
BatchRemotes ==
  { { Outcome("ok", 200, FALSE), Outcome("Timeout", 0, FALSE), Outcome("KeyError", 200, FALSE) },
    { Outcome("ok", 200, FALSE), Outcome("HTTPError", 401, FALSE),
      Outcome("RequestException", 0, FALSE) } }
InitBatch == InitWith(BatchConfigs, BatchArgs, BatchRemotes) /\ DefaultOptions

\* ------------------------------------------------------------------------
\* main: the image list and the batch loop
\* ------------------------------------------------------------------------
\* "Bild-Liste bestimmen": [args.image], or the sorted, de-duplicated glob results.
\* set(images)
set(s) == { s[i] : i \in 1..Len(s) }

\* What the list `images` can hold after the loop over SUPPORTED_FORMATS: the
\* matching entries in whatever order the set of formats and the directory
\* listings yield them, each once, or twice where a file name matches both
\* f"*{fmt}" and f"*{fmt.upper()}" (file systems that ignore case).
Collected(dir) ==
  LET found == globbed(dir)
      n == Cardinality(found)
  IN  { s \in UNION { [1..k -> found] : k \in n..(2 * n) } :
          /\ set(s) = found
          /\ \A f \in found : Cardinality({ i \in 1..Len(s) : s[i] = f }) <= 2 }

\* The image list as collected: not sorted, duplicates kept.
ImageListAsCollected(a, globs) == IF a.mode = "image" THEN <<a.image>> ELSE globs

ImageList(a, globs) == IF a.mode = "image" THEN <<a.image>> ELSE sorted(set(globs))

\* main up to the loop: builds the image list (sys.exit(1) when a batch directory
\* holds no supported image) and zeroes the counters.
MainStart ==
  /\ pc = "main"
  /\ \E globs \in Collected(args.dir) :
       /\ images' = ImageList(args, globs)
       /\ pc' = IF args.mode = "batch" /\ ImageList(args, globs) = <<>>
                THEN "exit" ELSE "loop"
  /\ idx' = 1
  /\ success_count' = 0
  /\ error_count' = 0
  /\ report' = <<>>
  /\ UNCHANGED <<cfgVars, pbVars, callVars, fs>>

\* An except branch that gives up on the batch: the error is counted and the
\* loop is left.
ExceptAborts ==
  /\ error_count' = error_count + 1
  /\ report' = Append(report, [image |-> images[idx], result |-> "error"])
  /\ idx' = idx + 1
  /\ pc' = "done"
  /\ UNCHANGED <<images, success_count>>

\* The loop body's `except Exception as e:` branch, then the next iteration.
Except ==
  /\ error_count' = error_count + 1
  /\ report' = Append(report, [image |-> images[idx], result |-> "error"])
  /\ idx' = idx + 1
  /\ pc' = "loop"
  /\ UNCHANGED <<images, success_count>>

\* The loop body's try branch after process_board returned, then the next iteration.
Succeeded ==
  /\ success_count' = success_count + 1
  /\ report' = Append(report, [image |-> images[idx], result |-> "ok"])
  /\ idx' = idx + 1
  /\ pc' = "loop"
  /\ UNCHANGED <<images, error_count>>

\* The loop has run out of images: the final report.
LoopEnd ==
  /\ pc = "loop"
  /\ idx > Len(images)
  /\ pc' = "done"
  /\ UNCHANGED <<cfgVars, mainVars, pbVars, callVars, fs>>

\* ------------------------------------------------------------------------
\* process_board
\* ------------------------------------------------------------------------
Event(ev, k) == [ev |-> ev, stage |-> k]

\* The checks of process_board without the one on the extension.
PreflightFailureNoFormatCheck(img) ==
  IF ~PathExists(img) THEN "FileNotFoundError"
  ELSE IF ~Readable(img) THEN "OSError"
  ELSE None

\* What process_board raises before its first stage, None when nothing:
\* the two checks on the path, then _encode_image's open().
PreflightFailure(img) ==
  IF ~PathExists(img) THEN "FileNotFoundError"
  ELSE IF ~IsSupported(img.suffix) THEN "ValueError"
  ELSE IF ~Readable(img) THEN "OSError"
  ELSE None

\* A fresh process_board frame: no stage output yet, no request made yet.
FreshLocals ==
  /\ structure_analysis' = NoText
  /\ raw_content' = NoText
  /\ cleaned_content' = NoText
  /\ summary_content' = NoText
  /\ context_section' = Unbound
FreshCall ==
  /\ messages' = NoMessages
  /\ used_model' = None
  /\ attempt' = 0
  /\ depth' = 0
  /\ last_exception' = NoException
  /\ events' = <<>>
  /\ call_outcome' = NoCall
  /\ requests_made' = 0

\* process_board is entered for images[idx] and raises before any stage.
ProcessBoardReject ==
  /\ pc = "loop"
  /\ idx <= Len(images)
  /\ PreflightFailure(images[idx]) # None
  /\ stage' = 0
  /\ mime_type' = None
  /\ stage_log' = <<Event(PreflightFailure(images[idx]), 0)>>
  /\ FreshLocals
  /\ FreshCall
  /\ Except
  /\ UNCHANGED <<cfgVars, fs>>

\* A run that starts by removing the artifacts of its board.
ProcessBoardAcceptClearing ==
  /\ pc = "loop"
  /\ idx <= Len(images)
  /\ PreflightFailure(images[idx]) = None
  /\ stage' = 1
  /\ mime_type' = encode_image(images[idx])
  /\ stage_log' = <<>>
  /\ FreshLocals
  /\ FreshCall
  /\ pc' = "stage"
  /\ fs' = [fs EXCEPT ![raw_path(images[idx].stem)] = NoFile,
                      ![summary_path(images[idx].stem)] = NoFile]
  /\ UNCHANGED <<cfgVars, mainVars>>

\* process_board is entered for images[idx], the image is encoded, stage 1 is next.
ProcessBoardAccept ==
  /\ pc = "loop"
  /\ idx <= Len(images)
  /\ PreflightFailure(images[idx]) = None
  /\ stage' = 1
  /\ mime_type' = encode_image(images[idx])
  /\ stage_log' = <<>>
  /\ FreshLocals
  /\ FreshCall
  /\ pc' = "stage"
  /\ UNCHANGED <<cfgVars, mainVars, fs>>

\* A stage-3 prompt built from the transcription alone.
CleanWithoutStructure == Messages(FALSE, FALSE, {raw_content})

\* The message sequences the four stage methods build.
analyze_structure_messages == Messages(TRUE, TRUE, {})
transcribe_raw_messages == Messages(TRUE, TRUE, {structure_analysis})
clean_and_enrich_messages == Messages(FALSE, FALSE, {structure_analysis, raw_content})
synthesize_summary_messages == Messages(FALSE, FALSE, {structure_analysis, cleaned_content})

StageMessages(k) ==
  CASE k = 1 -> analyze_structure_messages
    [] k = 2 -> transcribe_raw_messages
    [] k = 3 -> clean_and_enrich_messages
    [] OTHER -> synthesize_summary_messages

\* The stage method of `stage` builds its messages and calls self._call_api(messages):
\* the frame of the invocation starts with model = None.
Dispatch ==
  /\ pc = "stage"
  /\ context_section' = build_context_section(template, context)
  /\ messages' = StageMessages(stage)
  /\ used_model' = ResolveModel(None, model)
  /\ attempt' = 1
  /\ depth' = 1
  /\ last_exception' = NoException
  /\ events' = <<>>
  /\ call_outcome' = NoCall
  /\ stage_log' = Append(stage_log, Event("dispatch", stage))
  /\ pc' = "attempt"
  /\ UNCHANGED <<cfgVars, mainVars, fs, stage, mime_type, requests_made,
                 structure_analysis, raw_content, cleaned_content, summary_content>>

\* process_board with the transcription step left out: the structure analysis
\* is followed by the write of the raw artifact.
AfterStageSkipping(k) ==
  CASE k = 1 -> "write_raw"
    [] k = 2 -> "write_raw"
    [] k = 3 -> "stage"
    [] OTHER -> "write_summary"

\* Where process_board goes on after the stage method of stage k returned.
AfterStage(k) ==
  CASE k = 1 -> "stage"
    [] k = 2 -> "write_raw"
    [] k = 3 -> "stage"
    [] OTHER -> "write_summary"

\* ------------------------------------------------------------------------
\* _call_api
\* ------------------------------------------------------------------------
Request == [ev |-> "attempt", model |-> used_model, n |-> attempt]
Sleep(delay) == [ev |-> "sleep", model |-> used_model, n |-> delay]

\* A loop over range(1, self.MAX_RETRIES): one iteration short.
LoopContinuesShort(k) == k + 1 < MAX_RETRIES

\* `for attempt in range(1, self.MAX_RETRIES + 1)`: another iteration follows.
LoopContinues(k) == k + 1 <= MAX_RETRIES

\* A failure that cleans up after itself: the raw artifact of the board is
\* removed before the exception reaches main.
CallRaisesRollback(e, exc, cause) ==
  /\ last_exception' = e
  /\ events' = Append(events, Request)
  /\ requests_made' = requests_made + 1
  /\ call_outcome' = Raised(exc, cause)
  /\ stage_log' = Append(stage_log, Event("failed", stage))
  /\ fs' = [fs EXCEPT ![raw_path(images[idx].stem)] = NoFile]
  /\ Except
  /\ UNCHANGED <<cfgVars, messages, used_model, attempt, depth, stage,
                 structure_analysis, raw_content, cleaned_content, summary_content,
                 mime_type, context_section>>

\* The invocation raises exc (chained to cause): the exception leaves every
\* _call_api frame, the stage method and process_board, and reaches main.
CallRaises(e, exc, cause) ==
  /\ last_exception' = e
  /\ events' = Append(events, Request)
  /\ requests_made' = requests_made + 1
  /\ call_outcome' = Raised(exc, cause)
  /\ stage_log' = Append(stage_log, Event("failed", stage))
  /\ Except
  /\ UNCHANGED <<cfgVars, fs, messages, used_model, attempt, depth, stage,
                 structure_analysis, raw_content, cleaned_content, summary_content,
                 mime_type, context_section>>

\* The handler of e ends without raising: sleep `delay` when the guard allows,
\* then the next iteration of the loop, or the code after the loop.
Retry(e, delay) ==
  /\ last_exception' = e
  /\ events' = IF SleepsAfter(attempt)
               THEN events \o <<Request, Sleep(delay)>>
               ELSE Append(events, Request)
  /\ requests_made' = requests_made + 1
  /\ IF LoopContinues(attempt)
     THEN attempt' = attempt + 1 /\ pc' = "attempt"
     ELSE attempt' = attempt /\ pc' = "exhausted"
  /\ UNCHANGED <<cfgVars, mainVars, pbVars, fs, messages, used_model, depth, call_outcome>>

\* A success handled like a failure of the loop: the backoff sleep is taken
\* before the content is returned.
AttemptSuccessThenSleeps ==
  /\ pc = "attempt"
  /\ \E e \in remote : e.kind = "ok"
  /\ LET content == Content(idx, stage, used_model) IN
       /\ call_outcome' = Returned(content)
       /\ structure_analysis' = IF stage = 1 THEN content ELSE structure_analysis
       /\ raw_content' = IF stage = 2 THEN content ELSE raw_content
       /\ cleaned_content' = IF stage = 3 THEN content ELSE cleaned_content
       /\ summary_content' = IF stage = 4 THEN content ELSE summary_content
  /\ events' = events \o <<Request, Sleep(BackoffDelay(attempt))>>
  /\ requests_made' = requests_made + 1
  /\ stage_log' = Append(stage_log, Event("result", stage))
  /\ stage' = IF AfterStage(stage) = "stage" THEN stage + 1 ELSE stage
  /\ pc' = AfterStage(stage)
  /\ UNCHANGED <<cfgVars, mainVars, fs, messages, used_model, attempt, depth,
                 last_exception, mime_type, context_section>>

\* requests.post answers 2xx with a well-formed body: `return content` through
\* every frame; the stage method returns it and process_board binds it.
AttemptSuccess ==
  /\ pc = "attempt"
  /\ \E e \in remote : e.kind = "ok"
  /\ LET content == Content(idx, stage, used_model) IN
       /\ call_outcome' = Returned(content)
       /\ structure_analysis' = IF stage = 1 THEN content ELSE structure_analysis
       /\ raw_content' = IF stage = 2 THEN content ELSE raw_content
       /\ cleaned_content' = IF stage = 3 THEN content ELSE cleaned_content
       /\ summary_content' = IF stage = 4 THEN content ELSE summary_content
  /\ events' = Append(events, Request)
  /\ requests_made' = requests_made + 1
  /\ stage_log' = Append(stage_log, Event("result", stage))
  /\ stage' = IF AfterStage(stage) = "stage" THEN stage + 1 ELSE stage
  /\ pc' = AfterStage(stage)
  /\ UNCHANGED <<cfgVars, mainVars, fs, messages, used_model, attempt, depth,
                 last_exception, mime_type, context_section>>

\* 2xx whose body lacks choices[0].message.content: the KeyError is caught by
\* none of the except clauses and leaves _call_api.
AttemptMalformed ==
  /\ pc = "attempt"
  /\ \E e \in remote :
       /\ e.kind = "KeyError"
       /\ CallRaises(e, "KeyError", NoException)

\* `except requests.exceptions.Timeout`
AttemptTimeout ==
  /\ pc = "attempt"
  /\ \E e \in remote :
       /\ e.kind = "Timeout"
       /\ Retry(e, BackoffDelay(attempt))

\* `except requests.exceptions.HTTPError`
AttemptHTTPError ==
  /\ pc = "attempt"
  /\ \E e \in remote :
       /\ e.kind = "HTTPError"
       /\ CASE HTTPBranch(e) \in {"auth", "balance", "vision"} ->
                 CallRaises(e, "RuntimeError", e)
            [] HTTPBranch(e) = "backoff" -> Retry(e, BackoffDelay(attempt))
            [] OTHER -> Retry(e, FlatDelay(attempt))

\* `except requests.exceptions.RequestException`
AttemptRequestException ==
  /\ pc = "attempt"
  /\ \E e \in remote :
       /\ e.kind = "RequestException"
       /\ Retry(e, BackoffDelay(attempt))

\* After the loop, `return self._call_api(messages, model=self.fallback_model)`:
\* a new frame with its own attempt counter and last_exception.
FallbackDispatch ==
  /\ pc = "exhausted"
  /\ ShouldFallback(used_model, fallback_model)
  /\ depth < RecursionLimit
  /\ used_model' = ResolveModel(fallback_model, model)
  /\ attempt' = 1
  /\ depth' = depth + 1
  /\ last_exception' = NoException
  /\ pc' = "attempt"
  /\ UNCHANGED <<cfgVars, mainVars, pbVars, fs, messages, events, call_outcome,
                 requests_made>>

\* The same call when the interpreter's recursion limit is reached: RecursionError.
RecursionOverflow ==
  /\ pc = "exhausted"
  /\ ShouldFallback(used_model, fallback_model)
  /\ depth >= RecursionLimit
  /\ call_outcome' = Raised("RecursionError", NoException)
  /\ stage_log' = Append(stage_log, Event("failed", stage))
  /\ Except
  /\ UNCHANGED <<cfgVars, fs, messages, used_model, attempt, depth, last_exception,
                 requests_made,
                 events, stage,
                 structure_analysis, raw_content, cleaned_content, summary_content,
                 mime_type, context_section>>

\* After the loop, no fallback left: the final `raise RuntimeError(...)`, which
\* is outside every except block and has no `from`.
ExhaustedRaise ==
  /\ pc = "exhausted"
  /\ ~ShouldFallback(used_model, fallback_model)
  /\ call_outcome' = Raised("RuntimeError", NoException)
  /\ stage_log' = Append(stage_log, Event("failed", stage))
  /\ Except
  /\ UNCHANGED <<cfgVars, fs, messages, used_model, attempt, depth, last_exception,
                 requests_made,
                 events, stage,
                 structure_analysis, raw_content, cleaned_content, summary_content,
                 mime_type, context_section>>

\* ------------------------------------------------------------------------
\* process_board: the two writes
\* ------------------------------------------------------------------------
board_name(img) == img.stem

\* The raw artifact is not written at this point: stage 3 is next right away.
WriteRawDeferred ==
  /\ pc = "write_raw"
  /\ stage_log' = Append(stage_log, Event("write_raw", stage))
  /\ stage' = 3
  /\ pc' = "stage"
  /\ UNCHANGED <<cfgVars, mainVars, callVars, fs,
                 structure_analysis, raw_content, cleaned_content, summary_content,
                 mime_type, context_section>>

\* raw_path.write_text(raw_header + raw_content), then stage 3 is next.
WriteRaw ==
  /\ pc = "write_raw"
  /\ fs' = [fs EXCEPT ![raw_path(board_name(images[idx]))] =
              RawDocument(board_name(images[idx]), model, structure_analysis, raw_content)]
  /\ stage_log' = Append(stage_log, Event("write_raw", stage))
  /\ stage' = 3
  /\ pc' = "stage"
  /\ UNCHANGED <<cfgVars, mainVars, callVars,
                 structure_analysis, raw_content, cleaned_content, summary_content,
                 mime_type, context_section>>

\* summary_path.write_text(summary_header + summary_content), then
\* `return raw_path, summary_path` to main.
WriteSummary ==
  /\ pc = "write_summary"
  /\ fs' = [fs EXCEPT ![summary_path(board_name(images[idx]))] =
              SummaryDocument(board_name(images[idx]), model, summary_content)]
  /\ stage_log' = Append(stage_log, Event("write_summary", stage))
  /\ Succeeded
  /\ UNCHANGED <<cfgVars, callVars, stage,
                 structure_analysis, raw_content, cleaned_content, summary_content,
                 mime_type, context_section>>

\* ------------------------------------------------------------------------
\* Specification
\* ------------------------------------------------------------------------
Next ==
  \/ MainStart
  \/ LoopEnd
  \/ ProcessBoardReject
  \/ ProcessBoardAccept
  \/ Dispatch
  \/ AttemptSuccess
  \/ AttemptMalformed
  \/ AttemptTimeout
  \/ AttemptHTTPError
  \/ AttemptRequestException
  \/ FallbackDispatch
  \/ RecursionOverflow
  \/ ExhaustedRaise
  \/ WriteRaw
  \/ WriteSummary

Spec == Init /\ [][Next]_vars
SpecBatch == InitBatch /\ [][Next]_vars

\* ------------------------------------------------------------------------
\* The two helpers called on their own
\* ------------------------------------------------------------------------
\* A BoardDigitizer with any template and context, and a path to encode.
InitUnit ==
  /\ InitWith({<<"gemini", "sonnet">>}, EncodeArgs, {Permanently(Outcome("ok", 200, FALSE))})
  /\ Options(Templates, Contexts)

\* digitizer._encode_image(path): open() raises unless path is a readable file.
EncodeImageCall ==
  /\ pc = "main"
  /\ Readable(args.image)
  /\ mime_type' = encode_image(args.image)
  /\ UNCHANGED <<cfgVars, mainVars, callVars, pc, fs, context_section,
                 stage, structure_analysis, raw_content, cleaned_content,
                 summary_content, stage_log>>

\* digitizer._build_context_section()
BuildContextSectionCall ==
  /\ pc = "main"
  /\ context_section' = build_context_section(template, context)
  /\ UNCHANGED <<cfgVars, mainVars, callVars, pc, fs, mime_type,
                 stage, structure_analysis, raw_content, cleaned_content,
                 summary_content, stage_log>>

NextUnit ==
  \/ EncodeImageCall
  \/ BuildContextSectionCall

SpecUnit == InitUnit /\ [][NextUnit]_vars

\* ------------------------------------------------------------------------
\* Repeated runs on one image
\* ------------------------------------------------------------------------
\* The command lines that are repeated: an image that is processed and one that
\* is rejected.
RepeatArgs ==
  { [mode |-> "image", image |-> i, dir |-> {}] :
      i \in {Image("a", JPG, "file"), Image("a", GIF, "file")} }

InitRepeat == InitWith(BatchConfigs, RepeatArgs, BatchRemotes) /\ DefaultOptions

\* main is invoked MaxRuns times with the same command line and output
\* directory: process_board runs on args.image again and again. The runs are
\* laid out as one list, so that idx numbers them and report tells how each ended.
RepeatStart ==
  /\ pc = "main"
  /\ images' = [i \in 1..MaxRuns |-> args.image]
  /\ pc' = "loop"
  /\ idx' = 1
  /\ success_count' = 0
  /\ error_count' = 0
  /\ report' = <<>>
  /\ UNCHANGED <<cfgVars, pbVars, callVars, fs>>

NextRepeat ==
  \/ RepeatStart
  \/ LoopEnd
  \/ ProcessBoardReject
  \/ ProcessBoardAccept
  \/ Dispatch
  \/ AttemptSuccess
  \/ AttemptMalformed
  \/ AttemptTimeout
  \/ AttemptHTTPError
  \/ AttemptRequestException
  \/ FallbackDispatch
  \/ RecursionOverflow
  \/ ExhaustedRaise
  \/ WriteRaw
  \/ WriteSummary

SpecRepeat == InitRepeat /\ [][NextRepeat]_vars


\* ------------------------------------------------------------------------
\* Reading the histories
\* ------------------------------------------------------------------------
IsAttempt(x) == x.ev = "attempt"
IsSleep(x) == x.ev = "sleep"

\* The requests of the current (or last) _call_api invocation, in order,
\* and the sleeps between them.
Attempts == SelectSeq(events, IsAttempt)
Sleeps == SelectSeq(events, IsSleep)

AttemptEv(m, k) == [ev |-> "attempt", model |-> m, n |-> k]
SleepEv(m, d) == [ev |-> "sleep", model |-> m, n |-> d]

IsPrefix(s, t) == Len(s) <= Len(t) /\ \A i \in 1..Len(s) : s[i] = t[i]
Front(s) == SubSeq(s, 1, Len(s) - 1)
Last(s) == s[Len(s)]
Occurs(x, s) == \E i \in 1..Len(s) : s[i] = x

\* The invocation in progress, or the last one, has made a request.
CallMade == Len(events) > 0
\* The invocation ended by raising after its attempts were used up.
RaisedExhausted == call_outcome = Raised("RuntimeError", NoException)

\* The image of the process_board run that stage_log, the locals and events
\* belong to: the one in progress, or the one that has just ended.
RunEnded == pc \in {"loop", "done"} /\ idx > 1
RunIndex == IF RunEnded THEN idx - 1 ELSE idx
FailedAt(k) == stage_log # <<>> /\ Last(stage_log) = Event("failed", k)

AllTimeouts == Permanently(Outcome("Timeout", 0, FALSE))

\* ------------------------------------------------------------------------
\* C1
\* ------------------------------------------------------------------------
\* C1: with a primary model different from the fallback model and an endpoint
\* that times out on every request, one _call_api invocation makes MAX_RETRIES
\* attempts against the primary model, then MAX_RETRIES attempts against the
\* fallback model, and then raises: never more than 2 * MAX_RETRIES attempts,
\* attempt i going to the primary model for i <= MAX_RETRIES and to the
\* fallback model after that, and the failure raised after exactly
\* 2 * MAX_RETRIES attempts.
C1_TimeoutsPrimaryThenFallback ==
  (remote = AllTimeouts /\ model # fallback_model) =>
    /\ Len(Attempts) <= 2 * MAX_RETRIES
    /\ \A i \in 1..Len(Attempts) :
         Attempts[i].model = IF i <= MAX_RETRIES THEN model ELSE fallback_model
    /\ (call_outcome.kind = "raised" => Len(Attempts) = 2 * MAX_RETRIES)

\* ------------------------------------------------------------------------
\* C2
\* ------------------------------------------------------------------------
\* The answers the HTTPError handler is documented to treat as terminal.
TerminalAnswer(o) ==
  /\ o.kind = "HTTPError"
  /\ o.status \in {401, 402} \/ (o.status = 400 /\ o.vision)

\* C2: when the remote service answers with 401, 402 or 400-mentioning-vision,
\* the invocation raises after that one attempt: the history of the invocation
\* is a single attempt against the primary model, with no sleep and no attempt
\* against the fallback model, and the invocation has raised RuntimeError.
C2_TerminalAnswerOneAttempt ==
  \A o \in RemoteOutcomes :
    (TerminalAnswer(o) /\ remote = Permanently(o) /\ CallMade) =>
      /\ events = <<AttemptEv(model, 1)>>
      /\ call_outcome.kind = "raised"
      /\ call_outcome.exc = "RuntimeError"

\* ------------------------------------------------------------------------
\* C3
\* ------------------------------------------------------------------------
\* C3: when the primary model equals the fallback model, an invocation never
\* re-dispatches to the fallback: it stays in its first frame, makes at most
\* MAX_RETRIES attempts, and when its attempts are used up it raises after
\* exactly MAX_RETRIES attempts.
C3_NoFallbackWhenSameModel ==
  (model = fallback_model) =>
    /\ depth <= 1
    /\ Len(Attempts) <= MAX_RETRIES
    /\ \A i \in 1..Len(Attempts) : Attempts[i] = AttemptEv(model, i)
    /\ (RaisedExhausted => Len(Attempts) = MAX_RETRIES)
    /\ (pc = "exhausted" => Len(Attempts) = MAX_RETRIES)

\* An invocation with equal models has used up its attempts and raised.
C3_Witness ==
  /\ model = fallback_model
  /\ RaisedExhausted
  /\ Len(Attempts) = MAX_RETRIES
  /\ remote = AllTimeouts

\* ------------------------------------------------------------------------
\* C4
\* ------------------------------------------------------------------------
\* C4: every invocation, whatever the model identifiers (an empty fallback
\* identifier included) and the remote outcomes, makes at most 2 * MAX_RETRIES
\* attempts and has exactly one outcome: none while it runs, and a returned
\* text or a raised failure once control has left it.
C4_BoundedAttemptsOneOutcome ==
  /\ Len(Attempts) <= 2 * MAX_RETRIES
  /\ (pc \in {"attempt", "exhausted"} => call_outcome.kind = "none")
  /\ (CallMade /\ pc \notin {"attempt", "exhausted"} =>
        call_outcome.kind \in {"returned", "raised"})


\* ------------------------------------------------------------------------
\* C5
\* ------------------------------------------------------------------------
IsStageEvent(x) == x.ev \in {"dispatch", "result", "failed"}
StageEvents == SelectSeq(stage_log, IsStageEvent)

StageOrder ==
  << Event("dispatch", 1), Event("result", 1), Event("dispatch", 2), Event("result", 2),
     Event("dispatch", 3), Event("result", 3), Event("dispatch", 4), Event("result", 4) >>

LocalFailures == {"FileNotFoundError", "ValueError", "OSError"}

\* C5: the stages of a run are dispatched in the order 1, 2, 3, 4, each only
\* after the one before it returned; a request is only ever outstanding for the
\* stage dispatched last; and a failure is the last thing a run does: it follows
\* the dispatch of the stage that failed and nothing is dispatched after it.
C5_StagesInOrder ==
  /\ \/ IsPrefix(StageEvents, StageOrder)
     \/ /\ Len(StageEvents) >= 2
        /\ Last(StageEvents).ev = "failed"
        /\ IsPrefix(Front(StageEvents), StageOrder)
        /\ Last(Front(StageEvents)) = Event("dispatch", Last(StageEvents).stage)
     \/ /\ Len(stage_log) = 1
        /\ stage_log[1].ev \in LocalFailures
  /\ (pc \in {"attempt", "exhausted"} => Last(StageEvents) = Event("dispatch", stage))
  /\ (stage_log # <<>> /\ Last(stage_log).ev = "failed" => pc \in {"loop", "done"})

\* Stage 1 returned, stage 2 was dispatched and failed.
C5_Witness ==
  StageEvents = << Event("dispatch", 1), Event("result", 1),
                   Event("dispatch", 2), Event("failed", 2) >>

\* ------------------------------------------------------------------------
\* C6
\* ------------------------------------------------------------------------
\* C6: when stage 3 or stage 4 of a run fails, the raw artifact of the board
\* holds what the run wrote after stage 2 (the header naming the board and the
\* configured model, the stage-1 output and the stage-2 output of this run), and
\* the run has written no summary artifact: none is on disk.
C6_RawKeptNoSummary ==
  (RunEnded /\ (FailedAt(3) \/ FailedAt(4))) =>
    LET board == images[RunIndex].stem IN
      /\ structure_analysis = Content(RunIndex, 1, structure_analysis.by)
      /\ raw_content = Content(RunIndex, 2, raw_content.by)
      /\ fs[<<board, "_Raw.md">>] =
           [doc |-> "raw", board |-> board, model |-> model,
            structure |-> structure_analysis, body |-> raw_content]
      /\ fs[<<board, "_Summary.md">>] = NoFile
      /\ ~Occurs(Event("write_summary", 4), stage_log)

\* Stage 4 failed after the raw artifact was written.
C6_Witness ==
  /\ RunEnded
  /\ FailedAt(4)
  /\ fs[<<"a", "_Raw.md">>].doc = "raw"

\* ------------------------------------------------------------------------
\* C7
\* ------------------------------------------------------------------------
Position(x, s) == CHOOSE i \in 1..Len(s) : s[i] = x

\* C7: in a run the raw artifact is written right after stage 2 returned and
\* before stage 3 is dispatched, the summary artifact right after stage 4
\* returned, and nothing is on disk before stage 2 has returned.
C7_WritesAfterTheirStage ==
  LET board == images[RunIndex].stem
      raw == fs[<<board, "_Raw.md">>]
      summary == fs[<<board, "_Summary.md">>]
  IN  (pc # "main" /\ RunIndex <= Len(images)) =>
        /\ (~Occurs(Event("result", 2), stage_log) => \A p \in Paths : fs[p] = NoFile)
        /\ (raw # NoFile <=> Occurs(Event("write_raw", 2), stage_log))
        /\ (Occurs(Event("write_raw", 2), stage_log) =>
              Position(Event("write_raw", 2), stage_log)
                = Position(Event("result", 2), stage_log) + 1)
        /\ (Occurs(Event("dispatch", 3), stage_log) =>
              /\ Occurs(Event("write_raw", 2), stage_log)
              /\ Position(Event("write_raw", 2), stage_log)
                   < Position(Event("dispatch", 3), stage_log)
              /\ raw.body = raw_content)
        /\ (summary # NoFile <=> Occurs(Event("write_summary", 4), stage_log))
        /\ (Occurs(Event("write_summary", 4), stage_log) =>
              /\ Position(Event("write_summary", 4), stage_log)
                   = Position(Event("result", 4), stage_log) + 1
              /\ summary.body = summary_content)

\* The first request of stage 3 is about to go out and the raw artifact is on disk.
C7_Witness ==
  /\ pc = "attempt"
  /\ stage = 3
  /\ events = <<>>
  /\ fs[<<"a", "_Raw.md">>].doc = "raw"
  /\ fs[<<"a", "_Summary.md">>] = NoFile

\* ------------------------------------------------------------------------
\* C8
\* ------------------------------------------------------------------------
\* The path does not exist, or its lower-cased extension is not supported.
Unacceptable(img) == img.disk = "missing" \/ lower(img.suffix) \notin SUPPORTED_FORMATS

\* C8: for an image path that does not exist or whose extension, lower-cased,
\* is not one of .jpg, .jpeg, .png, .webp, process_board raises a local failure
\* (FileNotFoundError or ValueError): no stage is dispatched, no request is
\* attempted and no artifact is written, and main records an error.
C8_RejectedBeforeAnyRequest ==
  (pc # "main" /\ Unacceptable(images[1])) =>
    /\ pc \in {"loop", "done"}
    /\ events = <<>>
    /\ call_outcome = NoCall
    /\ \A p \in Paths : fs[p] = NoFile
    /\ (idx > 1 =>
          /\ Len(stage_log) = 1
          /\ stage_log[1].ev \in {"FileNotFoundError", "ValueError"}
          /\ report = <<[image |-> images[1], result |-> "error"]>>
          /\ error_count = 1)

\* An existing file with an unsupported extension has been rejected.
C8_Witness ==
  /\ pc = "done"
  /\ images = <<Image("a", GIF, "file")>>
  /\ stage_log = <<Event("ValueError", 0)>>
  /\ error_count = 1

\* ------------------------------------------------------------------------
\* C9
\* ------------------------------------------------------------------------
Results(r) == { i \in 1..Len(report) : report[i].result = r }

\* C9: the batch loop takes the images in list order, each once, whether or not
\* an earlier one failed: the report holds one entry for each image before idx,
\* in order; it says ok exactly for a run that ended with the summary written
\* and error for a run that raised; success_count and error_count count these
\* entries; and the loop ends only after the last image.
C9_BatchIsolation ==
  (pc # "main") =>
    /\ Len(report) = idx - 1
    /\ idx - 1 <= Len(images)
    /\ \A i \in 1..Len(report) : report[i].image = images[i]
    /\ success_count = Cardinality(Results("ok"))
    /\ error_count = Cardinality(Results("error"))
    /\ success_count + error_count = Len(report)
    /\ (RunEnded => (report[idx - 1].result = "ok"
                       <=> Last(stage_log) = Event("write_summary", 4)))
    /\ (RunEnded => (report[idx - 1].result = "error"
                       <=> Last(stage_log).ev \in {"failed"} \cup LocalFailures))
    /\ (pc = "done" => Len(report) = Len(images))

\* Three images, the second failed before its raw artifact, the others succeeded.
C9_Witness ==
  /\ pc = "done"
  /\ Len(images) = 3
  /\ images[2].stem = "b"
  /\ report[1].result = "ok" /\ report[2].result = "error" /\ report[3].result = "ok"
  /\ success_count = 2 /\ error_count = 1
  /\ fs[<<"a", "_Summary.md">>].doc = "summary"
  /\ fs[<<"b", "_Raw.md">>] = NoFile /\ fs[<<"b", "_Summary.md">>] = NoFile
  /\ fs[<<"c", "_Summary.md">>].doc = "summary"

\* ------------------------------------------------------------------------
\* C10
\* ------------------------------------------------------------------------
\* An HTTP error status other than 401, 402, 400-with-vision, 429 and 503.
OtherHTTPAnswer(o) ==
  /\ o.kind = "HTTPError"
  /\ o.status \notin {401, 402, 429, 503}
  /\ ~(o.status = 400 /\ o.vision)

FlatFrame(m) ==
  << AttemptEv(m, 1), SleepEv(m, RETRY_BASE_DELAY),
     AttemptEv(m, 2), SleepEv(m, RETRY_BASE_DELAY), AttemptEv(m, 3) >>

C11_AsStated ==
  (remote = AllTimeouts /\ model # fallback_model) =>
    \A i \in 2..Len(events) :
      IsAttempt(events[i]) =>
        /\ i >= 3
        /\ IsAttempt(events[i - 2])
        /\ events[i - 1] = SleepEv(events[i - 2].model,
                                   Pow(RETRY_BASE_DELAY, events[i - 2].n))

\* C11 amended: against such an endpoint attempt k > 1 against a model directly
\* follows a sleep of RETRY_BASE_DELAY ** (k - 1), which directly follows
\* attempt k - 1 against that model; the last attempt against a model is followed
\* by no sleep, so that the first attempt of a re-dispatch directly follows
\* attempt MAX_RETRIES of the dispatch before it.
C11_BackoffWithinAModel ==
  (remote = AllTimeouts /\ model # fallback_model) =>
    /\ \A i \in 1..Len(events) :
         IsAttempt(events[i]) =>
           IF events[i].n > 1
           THEN /\ i >= 3
                /\ events[i - 2] = AttemptEv(events[i].model, events[i].n - 1)
                /\ events[i - 1] = SleepEv(events[i].model,
                                           Pow(RETRY_BASE_DELAY, events[i].n - 1))
           ELSE i > 1 => /\ IsAttempt(events[i - 1])
                         /\ events[i - 1].n = MAX_RETRIES
    /\ \A i \in 1..Len(events) :
         IsSleep(events[i]) => i > 1 /\ IsAttempt(events[i - 1])
                                     /\ events[i - 1].n < MAX_RETRIES
    /\ (pc = "exhausted" => IsAttempt(Last(events)))

\* Both models have timed out MAX_RETRIES times: two sleeps each, none between
\* the last primary attempt and the first fallback attempt.
C11_Witness ==
  /\ remote = AllTimeouts
  /\ model = "gemini" /\ fallback_model = "sonnet"
  /\ RaisedExhausted
  /\ events = << AttemptEv("gemini", 1), SleepEv("gemini", 2), AttemptEv("gemini", 2),
                 SleepEv("gemini", 4), AttemptEv("gemini", 3),
                 AttemptEv("sonnet", 1), SleepEv("sonnet", 2), AttemptEv("sonnet", 2),
                 SleepEv("sonnet", 4), AttemptEv("sonnet", 3) >>

\* ------------------------------------------------------------------------
\* C12
\* ------------------------------------------------------------------------
\* C12: in one invocation a request goes to the fallback model (when it differs
\* from the requested model) only after MAX_RETRIES attempts against the
\* requested model, numbered 1..MAX_RETRIES, have failed; the re-dispatch carries
\* the message sequence the stage built, its attempt counter restarts at 1 and it
\* is given up only after MAX_RETRIES attempts of its own.
C12_FallbackAfterFullBudget ==
  /\ \A i \in 1..Len(Attempts) :
       /\ Attempts[i].n = ((i - 1) % MAX_RETRIES) + 1
       /\ (i <= MAX_RETRIES => Attempts[i].model = model)
       /\ (Attempts[i].model = fallback_model /\ fallback_model # model =>
             /\ i > MAX_RETRIES
             /\ \A j \in 1..MAX_RETRIES : Attempts[j] = AttemptEv(model, j))
  /\ (pc \in {"attempt", "exhausted"} =>
        /\ messages = StageMessages(stage)
        /\ attempt \in 1..MAX_RETRIES
        /\ Len(Attempts) = (depth - 1) * MAX_RETRIES
                             + (IF pc = "attempt" THEN attempt - 1 ELSE attempt))
  /\ (pc = "exhausted" => attempt = MAX_RETRIES)
  /\ (depth >= 2 /\ fallback_model # EmptyModel => used_model = fallback_model)

\* The fallback model is about to get its first request, with the messages of
\* stage 2, after three failed attempts against the primary model.
C12_Witness ==
  /\ model = "gemini" /\ fallback_model = "sonnet"
  /\ pc = "attempt" /\ depth = 2 /\ attempt = 1 /\ used_model = "sonnet"
  /\ stage = 2
  /\ messages = Messages(TRUE, TRUE, {structure_analysis})
  /\ Attempts = << AttemptEv("gemini", 1), AttemptEv("gemini", 2), AttemptEv("gemini", 3) >>

\* ------------------------------------------------------------------------
\* C13
\* ------------------------------------------------------------------------
\* The output of stage k of the run in progress is part of the request's text.
Embeds(k) == \E t \in messages.embeds : t.run = idx /\ t.stage = k /\ t # NoText

\* C13: while a request of a stage is outstanding, its messages embed the
\* stage-1 output (stage 2), the stage-1 and stage-2 outputs (stage 3), the
\* stage-1 and stage-3 outputs (stage 4), as process_board holds them; stages 1
\* and 2 carry a system message and the image, stages 3 and 4 neither.
C13_StageRequestsEmbedEarlierOutputs ==
  (pc \in {"attempt", "exhausted"}) =>
    /\ (stage = 1 => messages.system /\ messages.image /\ messages.embeds = {})
    /\ (stage = 2 => /\ messages.system /\ messages.image
                     /\ Embeds(1) /\ structure_analysis \in messages.embeds)
    /\ (stage = 3 => /\ ~messages.system /\ ~messages.image
                     /\ Embeds(1) /\ structure_analysis \in messages.embeds
                     /\ Embeds(2) /\ raw_content \in messages.embeds)
    /\ (stage = 4 => /\ ~messages.system /\ ~messages.image
                     /\ Embeds(1) /\ structure_analysis \in messages.embeds
                     /\ Embeds(3) /\ cleaned_content \in messages.embeds)

\* The request of stage 4 is outstanding; stage 1 was answered by the primary
\* model, stage 3 by the fallback model.
C13_Witness ==
  /\ pc = "attempt"
  /\ stage = 4
  /\ messages = Messages(FALSE, FALSE, {Content(1, 1, "gemini"), Content(1, 3, "sonnet")})

\* ------------------------------------------------------------------------
\* C14
\* ------------------------------------------------------------------------
\* _encode_image has returned a media type for a path with a supported extension.
Encoded == mime_type # None /\ lower(args.image.suffix) \in SUPPORTED_FORMATS

\* C14 as stated: every supported extension is a key of the mapping, and the
\* media type returned for a path with a supported extension is returned for
\* no other supported extension.
C14_AsStated ==
  Encoded =>
    /\ \A fmt \in SUPPORTED_FORMATS : fmt \in DOMAIN mime_map
    /\ \A fmt \in SUPPORTED_FORMATS \ {lower(args.image.suffix)} :
         encode_image(Image("a", fmt, "file")) # mime_type

\* C14 amended: every supported extension is a key of the mapping, so the
\* default is never used for one; .jpg and .jpeg both give image/jpeg, and no
\* other two supported extensions give the same media type.
C14_TotalInjectiveButJpeg ==
  Encoded =>
    /\ \A fmt \in SUPPORTED_FORMATS : fmt \in DOMAIN mime_map
    /\ mime_type = mime_map[lower(args.image.suffix)]
    /\ (lower(args.image.suffix) \in {JPG, JPEG} => mime_type = "image/jpeg")
    /\ \A fmt \in SUPPORTED_FORMATS \ {lower(args.image.suffix)} :
         encode_image(Image("a", fmt, "file")) = mime_type
           => {fmt, lower(args.image.suffix)} = {JPG, JPEG}

\* a.JPEG has been encoded as image/jpeg, the media type of a.jpg.
C14_Witness ==
  /\ args.image = Image("a", upper(JPEG), "file")
  /\ mime_type = "image/jpeg"
  /\ encode_image(Image("a", JPG, "file")) = mime_type

\* ------------------------------------------------------------------------
\* C15
\* ------------------------------------------------------------------------
\* C15: the artifacts written for an image of a batch are written for no other
\* image of the batch: once the run of image i has returned, the raw and the
\* summary artifact of its board hold the content of run i, whatever the runs
\* of the images after it do.
C15_ArtifactsOfOneImageOnly ==
  \A i \in 1..Len(report) :
    report[i].result = "ok" =>
      /\ fs[raw_path(images[i].stem)].body.run = i
      /\ fs[summary_path(images[i].stem)].body.run = i

\* ------------------------------------------------------------------------
\* C16
\* ------------------------------------------------------------------------
\* C16: the model named in the header of an artifact on disk is the model that
\* returned the stage content of the artifact: the outputs of stages 1 and 2 for
\* the raw artifact, the output of stage 4 for the summary artifact.
C16_HeaderNamesProducingModel ==
  \A p \in Paths :
    /\ (fs[p].doc = "raw" =>
          fs[p].structure.by = fs[p].model /\ fs[p].body.by = fs[p].model)
    /\ (fs[p].doc = "summary" => fs[p].body.by = fs[p].model)

\* ------------------------------------------------------------------------
\* C17
\* ------------------------------------------------------------------------
NamedTemplates == DOMAIN BOARD_TEMPLATES \ {"custom"}

\* piece a comes before piece b in text t
Before(a, b, t) == \E i, j \in 1..Len(t) : i < j /\ t[i] = a /\ t[j] = b

\* C17 as stated: the context block is "Board-Kontext: X" for the custom
\* template with context X, the fixed text of the template for a named template
\* without context, and for a named template with context a text that holds the
\* template's text before the context.
C17_AsStated ==
  (context_section # Unbound) =>
    /\ (template = "custom" /\ context # EmptyText =>
          context_section = Text("Board-Kontext: ") \o context)
    /\ (template \in NamedTemplates /\ context = EmptyText =>
          context_section = BOARD_TEMPLATES[template])
    /\ (template \in NamedTemplates /\ context # EmptyText =>
          Before(BOARD_TEMPLATES[template][1], context[1], context_section))

\* C17 amended: the context block is the heading line "Board-Kontext:\n", the
\* composed text and a line end; the composed text is "Board-Kontext: X" for the
\* custom template with context X, the fixed text of the template for a named
\* template without context, and for a named template with context the fixed
\* text followed by "\n\nZusätzlicher Kontext: X".
C17_HeadingThenComposedText ==
  (context_section # Unbound) =>
    /\ (template = "custom" /\ context # EmptyText =>
          context_section =
            <<"Board-Kontext:\n", "Board-Kontext: ">> \o context \o <<"\n">>)
    /\ (template \in NamedTemplates /\ context = EmptyText =>
          context_section =
            <<"Board-Kontext:\n">> \o BOARD_TEMPLATES[template] \o <<"\n">>)
    /\ (template \in NamedTemplates /\ context # EmptyText =>
          /\ context_section =
               <<"Board-Kontext:\n">> \o BOARD_TEMPLATES[template]
                 \o <<"\n\nZusaetzlicher Kontext: ">> \o context \o <<"\n">>
          /\ Before(BOARD_TEMPLATES[template][1], context[1], context_section))

\* The block of the retrospektive template with the context X.
C17_Witness ==
  /\ template = "retrospektive"
  /\ context = <<"X">>
  /\ context_section =
       << "Board-Kontext:\n", "Dies ist ein Retrospektiven-Board.",
          "\n\nZusaetzlicher Kontext: ", "X", "\n" >>

\* ------------------------------------------------------------------------
\* C18
\* ------------------------------------------------------------------------
\* C18 as stated: for a template key that is no key of BOARD_TEMPLATES, the
\* empty key included, the context block is the empty text whatever the context.
C18_AsStated ==
  (context_section # Unbound /\ template \notin DOMAIN BOARD_TEMPLATES) =>
    context_section = EmptyText

\* C18 amended: for such a key the context block is the empty text when the
\* context is empty, and otherwise the heading line followed by
\* "\n\nZusätzlicher Kontext: X" and a line end.
C18_EmptyOnlyWithoutContext ==
  (context_section # Unbound /\ template \notin DOMAIN BOARD_TEMPLATES) =>
    /\ (context = EmptyText => context_section = EmptyText)
    /\ (context # EmptyText =>
          context_section =
            <<"Board-Kontext:\n", "\n\nZusaetzlicher Kontext: ">> \o context \o <<"\n">>)

\* The block for a key that is no template, with the context X.
C18_Witness ==
  /\ template = "kanban"
  /\ context = <<"X">>
  /\ context_section =
       << "Board-Kontext:\n", "\n\nZusaetzlicher Kontext: ", "X", "\n" >>

\* ------------------------------------------------------------------------
\* C19
\* ------------------------------------------------------------------------
\* C19: a RuntimeError that _call_api raises has the exception of the failed
\* attempt it reports as its chained cause; the one raised when the attempts of
\* the last model are used up has the exception of the most recent failed
\* attempt, the frame's last_exception.
C19_TerminalFailureHasCause ==
  (call_outcome.kind = "raised" /\ call_outcome.exc = "RuntimeError") =>
    /\ call_outcome.cause # NoException
    /\ call_outcome.cause = last_exception

\* ------------------------------------------------------------------------
\* C20
\* ------------------------------------------------------------------------
\* The entries of a directory that one of the glob patterns matches.
Matching(dir) ==
  { f \in dir : \E fmt \in SUPPORTED_FORMATS : f.suffix = fmt \/ f.suffix = upper(fmt) }

\* C20: in batch mode the image list holds the matching entries of the
\* directory in strictly ascending order of their names, each once, whatever
\* order and multiplicity the glob calls produced; main passes the images to
\* process_board in this order, and none twice.
C20_BatchInAscendingOrderOnce ==
  (pc # "main" /\ args.mode = "batch") =>
    /\ \A i, j \in 1..Len(images) :
         i < j => StrLess(<<images[i].stem>> \o images[i].suffix,
                          <<images[j].stem>> \o images[j].suffix)
    /\ { images[i] : i \in 1..Len(images) } = Matching(args.dir)
    /\ \A i \in 1..Len(report) : report[i].image = images[i]
    /\ \A i, j \in 1..Len(report) : i # j => report[i].image # report[j].image

\* a.PNG and a.jpg of one directory have been processed, a.PNG first.
C20_Witness ==
  /\ args.mode = "batch"
  /\ pc = "done"
  /\ images = << Image("a", upper(PNG), "file"), Image("a", JPG, "file") >>
  /\ Len(report) = 2
  /\ report[1].image.suffix = upper(PNG) /\ report[2].image.suffix = JPG

\* ------------------------------------------------------------------------
\* C21
\* ------------------------------------------------------------------------
\* The local of process_board that the output of stage k is bound to.
StageLocal(k) ==
  CASE k = 1 -> structure_analysis
    [] k = 2 -> raw_content
    [] k = 3 -> cleaned_content
    [] OTHER -> summary_content

\* C21: when an invocation has returned, the remote service can answer 2xx with
\* a well-formed body, the last thing the invocation did is the attempt that got
\* this answer (no attempt, sleep or re-dispatch follows it), the value returned
\* is the content of that attempt, answered by the model the attempt went to,
\* process_board has bound exactly this value, and control has left _call_api.
C21_ReturnsContentOfLastAttempt ==
  (call_outcome.kind = "returned") =>
    /\ \E o \in remote : o.kind = "ok"
    /\ pc \notin {"attempt", "exhausted"}
    /\ events # <<>>
    /\ Last(events) = AttemptEv(used_model, attempt)
    /\ Len(Attempts) = (depth - 1) * MAX_RETRIES + attempt
    /\ call_outcome.value # NoText
    /\ call_outcome.value.run = RunIndex
    /\ call_outcome.value.by = Last(events).model
    /\ call_outcome.value.stage \in 1..4
    /\ StageLocal(call_outcome.value.stage) = call_outcome.value
    /\ call_outcome.exc = None

\* Stage 1 was answered by the fallback model on its second attempt, after the
\* primary model failed three times; nothing follows the successful attempt.
C21_Witness ==
  /\ call_outcome = Returned(Content(1, 1, "sonnet"))
  /\ structure_analysis = Content(1, 1, "sonnet")
  /\ Len(Attempts) = MAX_RETRIES + 2
  /\ Last(events) = AttemptEv("sonnet", 2)
  /\ pc = "stage" /\ stage = 2

\* ------------------------------------------------------------------------
\* C22
\* ------------------------------------------------------------------------
\* C22: the first request of every stage goes to the primary model, whatever
\* model answered the stages before it, and a process_board run sends at most
\* 4 * 2 * MAX_RETRIES requests.
C22_PrimaryFirstBoundedRequests ==
  /\ (CallMade => events[1] = AttemptEv(model, 1))
  /\ (pc = "attempt" /\ events = <<>> => used_model = model /\ attempt = 1)
  /\ requests_made <= 4 * 2 * MAX_RETRIES

\* ------------------------------------------------------------------------
\* C23
\* ------------------------------------------------------------------------
\* The run in progress is about to write the artifact at path p.
WritesRaw(p) ==
  /\ pc = "write_raw"
  /\ p = <<images[idx].stem, "_Raw.md">>
  /\ Last(stage_log) = Event("result", 2)
WritesSummary(p) ==
  /\ pc = "write_summary"
  /\ p = <<images[idx].stem, "_Summary.md">>
  /\ Last(stage_log) = Event("result", 4)

\* C23: over repeated runs on one image, an artifact on disk changes only in
\* the step in which a run writes it: the raw artifact right after stage 2 of
\* the run returned, the summary artifact right after its stage 4 returned, so
\* a run that fails leaves the summary artifact as it found it; the write
\* replaces the artifact by the outputs of the writing run, and when a run has
\* written its summary both artifacts hold the outputs of that run only.
C23_ArtifactsChangeOnlyWhenWritten ==
  [][ /\ \A p \in Paths :
           fs'[p] # fs[p] =>
             \/ /\ WritesRaw(p)
                /\ fs'[p].doc = "raw"
                /\ fs'[p].structure = structure_analysis /\ structure_analysis.run = idx
                /\ fs'[p].body = raw_content /\ raw_content.run = idx
             \/ /\ WritesSummary(p)
                /\ fs'[p].doc = "summary"
                /\ fs'[p].body = summary_content /\ summary_content.run = idx
      /\ (pc = "write_raw" =>
            fs'[<<images[idx].stem, "_Raw.md">>].body = Content(idx, 2, raw_content.by))
      /\ (pc = "write_summary" =>
            /\ fs'[<<images[idx].stem, "_Summary.md">>].body
                 = Content(idx, 4, summary_content.by)
            /\ fs'[<<images[idx].stem, "_Raw.md">>].body.run = idx
            /\ fs'[<<images[idx].stem, "_Raw.md">>].structure.run = idx)
      /\ (pc \in {"attempt", "exhausted"} /\ pc' \in {"loop", "done"} =>
            /\ Last(stage_log').ev = "failed"
            /\ fs'[<<images[idx].stem, "_Summary.md">>]
                 = fs[<<images[idx].stem, "_Summary.md">>])
    ]_vars

\* The first run on a.jpg succeeded; the second run replaced the raw artifact
\* and then failed in stage 3: the summary artifact is still that of run 1.
C23_Witness ==
  /\ pc = "done"
  /\ images = << Image("a", JPG, "file"), Image("a", JPG, "file") >>
  /\ report[1].result = "ok" /\ report[2].result = "error"
  /\ FailedAt(3)
  /\ fs[<<"a", "_Raw.md">>].body.run = 2
  /\ fs[<<"a", "_Summary.md">>].body.run = 1

====
